---- MODULE Spec2Model ----
(***************************************************************************)
(* Model of contracts/ickb/src/utils.rs: the byte-layout decoders of the   *)
(* iCKB script (extract_ickb_data, extract_unused_capacity,                *)
(* extract_accumulated_rate, cell_data_has_8_zeroed_bytes, u64_from).      *)
(*                                                                         *)
(* A u64 is kept at its full width as four 16-bit limbs, least significant *)
(* first, because 2^64 does not fit the model checker's integers.  A byte  *)
(* buffer is a sequence of numbers in 0..255; Rust's 0-based index i is    *)
(* position i + 1 of the sequence.                                         *)
(***************************************************************************)
EXTENDS Integers, Sequences, FiniteSets, TLC

VARIABLES
    host,             \* the host's snapshot: key -> cell (data, capacities, header)
    overflow_checks,  \* whether the build traps on integer overflow
    call,             \* the last call made: operation and arguments
    ret,              \* what the last call returned
    fetches,          \* the host fetches the last call issued, in order
    reads,            \* the 0-based byte indices the last call read from a buffer
    first,            \* history: the first call of the run and what it returned
    later             \* history: TRUE once a call followed the first one

vars == <<host, overflow_checks, call, ret, fetches, reads, first, later>>

----------------------------------------------------------------------------
(* Bounds of the model *)

\* Longest cell payload the host holds.
MaxLen == 17

\* Largest offset handed to u64_from when it is applied on its own.
MaxBegin == 9

----------------------------------------------------------------------------
(* Values *)

ByteBase == 2^8
LimbBase == ByteBase * ByteBase
Limbs == 64 \div 16

Ok(v) == [tag |-> "Ok", val |-> v]
Err(e) == [tag |-> "Err", err |-> e]
Bool(b) == [tag |-> "Bool", val |-> b]
Panic == [tag |-> "Panic"]

Outcome(r, f, rd) == [ret |-> r, fetches |-> f, reads |-> rd]

IsU64(v) == /\ DOMAIN v = 1..Limbs
            /\ \A k \in 1..Limbs : v[k] \in 0..(LimbBase - 1)

\* The u64 with the given small value.
Small(n) == <<n, 0, 0, 0>>

\* Little-endian byte i (0..7) of a u64: what u64::to_le_bytes puts at index i.
ByteOf(v, i) == (v[(i \div 2) + 1] \div (IF i % 2 = 0 THEN 1 ELSE ByteBase)) % ByteBase

to_le_bytes(v) == [i \in 1..8 |-> ByteOf(v, i - 1)]

\* a < b on u64, from the most significant limb down.
RECURSIVE LessFrom(_, _, _)
LessFrom(a, b, k) ==
    IF k = 0 THEN FALSE
    ELSE IF a[k] # b[k] THEN a[k] < b[k]
    ELSE LessFrom(a, b, k - 1)

Less(a, b) == LessFrom(a, b, Limbs)

\* a + b on u64 modulo 2^64, limb by limb with carry.
RECURSIVE AddFrom(_, _, _, _)
AddFrom(a, b, k, carry) ==
    IF k > Limbs THEN <<>>
    ELSE LET s == a[k] + b[k] + carry
         IN <<s % LimbBase>> \o AddFrom(a, b, k + 1, s \div LimbBase)

wrapping_add(a, b) == AddFrom(a, b, 1, 0)

----------------------------------------------------------------------------
(* Rust primitives used by utils.rs *)

\* The bytes read most significant first.
from_be_bytes(buffer) ==
    [k \in 1..Limbs |-> buffer[10 - 2 * k] + ByteBase * buffer[9 - 2 * k]]

\* u64::from_le_bytes: byte i has weight 256^i.
from_le_bytes(buffer) ==
    [k \in 1..Limbs |-> buffer[2 * k - 1] + ByteBase * buffer[2 * k]]

\* u8::from_le_bytes on a one-byte array.
u8_from_le_bytes(array) == array[1]

\* &data[begin..end]; the caller has checked begin <= end <= len.
Slice(data, begin, end) == SubSeq(data, begin + 1, end)

\* Whether data[begin..end] is in range (Rust panics otherwise).
InRange(data, begin, end) == begin <= end /\ end <= Len(data)

\* buffer[begin..end].copy_from_slice(src), with Len(src) = end - begin.
copy_from_slice(buffer, begin, end, src) ==
    [i \in 1..Len(buffer) |->
        IF begin < i /\ i <= end THEN src[i - begin] ELSE buffer[i]]

\* [0u8; 8]
ZeroBuffer == [i \in 1..8 |-> 0]

\* a - b on u64 modulo 2^64, limb by limb with borrow.
RECURSIVE SubFrom(_, _, _, _)
SubFrom(a, b, k, borrow) ==
    IF k > Limbs THEN <<>>
    ELSE LET d == a[k] - b[k] - borrow
         IN <<d % LimbBase>> \o SubFrom(a, b, k + 1, IF d < 0 THEN 1 ELSE 0)

wrapping_sub(a, b) == SubFrom(a, b, 1, 0)

\* The `-` of u64: a build with overflow checks panics on underflow, a build
\* without them wraps the difference modulo 2^64.
minus(a, b) ==
    IF Less(a, b) /\ overflow_checks THEN Panic ELSE Ok(wrapping_sub(a, b))

\* The conversion `?` applies to a host error (From<SysError> for Error, in
\* crate::error): a pass-through of the host's error.
ErrorFrom(e) == e

----------------------------------------------------------------------------
(* The host: fetches by (index, source) *)

Keys == {<<0, "Input">>, <<1, "Output">>}

load_cell_data(index, source) == host[<<index, source>>].data
load_cell_capacity(index, source) == host[<<index, source>>].capacity
load_cell_occupied_capacity(index, source) == host[<<index, source>>].occupied
load_header_dao(index, source) == host[<<index, source>>].dao

----------------------------------------------------------------------------
(* utils.rs *)

\* Minimum payload length of the token/receipt record.
RecordLen == 16

\* Offset of the accumulated rate in the DAO field.
RateOffset == 8

u64_from_unchecked(data, begin) ==
    LET end == begin + 8
    IN  LET padded == data \o [i \in 1..end |-> 0]
            buffer == copy_from_slice(ZeroBuffer, 0, 8, Slice(padded, begin, end))
        IN  Outcome(Ok(from_le_bytes(buffer)), <<>>, begin..(end - 1))

u64_from(data, begin) ==
    LET end == begin + 8
    IN  IF Len(data) < end
        THEN Outcome(Err("Encoding"), <<>>, {})
        ELSE LET buffer == copy_from_slice(ZeroBuffer, 0, 8, Slice(data, begin, end))
             IN  Outcome(Ok(from_le_bytes(buffer)), <<>>, begin..(end - 1))

\* Lines 19-21: the receipt amount from bytes [8,15).
receipt_buffer_8_bytes(ickb_data) ==
    copy_from_slice(ZeroBuffer, 0, 8, Slice(ickb_data, 8, 16))

receipt_buffer(ickb_data) ==
    copy_from_slice(ZeroBuffer, 0, 7, Slice(ickb_data, 8, 15))

\* Line 25: the same buffer, overwritten by bytes [0,8).
token_buffer_partial(buffer, ickb_data) ==
    copy_from_slice(buffer, 0, 7, Slice(ickb_data, 0, 7))

token_buffer(buffer, ickb_data) ==
    copy_from_slice(buffer, 0, 8, Slice(ickb_data, 0, 8))

decode_ickb_data(ickb_data) ==
    LET receipt_count == u8_from_le_bytes(<<ickb_data[16]>>)
        buffer1 == receipt_buffer(ickb_data)
        receipt_amount == from_le_bytes(buffer1)
        buffer2 == token_buffer(buffer1, ickb_data)
        token_amount == from_le_bytes(buffer2)
    IN  <<token_amount, receipt_amount, receipt_count>>

extract_ickb_data_short(index, source) ==
    LET r == load_cell_data(index, source)
    IN  IF r.tag # "Ok"
        THEN Outcome(Err(ErrorFrom(r.err)), <<"load_cell_data">>, {})
        ELSE IF Len(r.val) < 8
        THEN Outcome(Err("Encoding"), <<"load_cell_data">>, {})
        ELSE IF ~InRange(r.val, 0, 16)
        THEN Outcome(Panic, <<"load_cell_data">>, 0..(Len(r.val) - 1))
        ELSE Outcome(Ok(decode_ickb_data(r.val)), <<"load_cell_data">>, 0..15)

extract_ickb_data(index, source) ==
    LET r == load_cell_data(index, source)
    IN  IF r.tag # "Ok"
        THEN Outcome(Err(ErrorFrom(r.err)), <<"load_cell_data">>, {})
        ELSE IF Len(r.val) < RecordLen
        THEN Outcome(Err("Encoding"), <<"load_cell_data">>, {})
        ELSE IF ~InRange(r.val, 0, 16)
        THEN Outcome(Panic, <<"load_cell_data">>, 0..(Len(r.val) - 1))
        ELSE Outcome(Ok(decode_ickb_data(r.val)), <<"load_cell_data">>, 0..15)

extract_unused_capacity_eager(index, source) ==
    LET c == load_cell_capacity(index, source)
        o == load_cell_occupied_capacity(index, source)
        f == <<"load_cell_capacity", "load_cell_occupied_capacity">>
    IN  IF o.tag # "Ok" THEN Outcome(Err(ErrorFrom(o.err)), f, {})
        ELSE IF c.tag # "Ok" THEN Outcome(Err(ErrorFrom(c.err)), f, {})
        ELSE Outcome(minus(c.val, o.val), f, {})

extract_unused_capacity(index, source) ==
    LET c == load_cell_capacity(index, source)
    IN  IF c.tag # "Ok"
        THEN Outcome(Err(ErrorFrom(c.err)), <<"load_cell_capacity">>, {})
        ELSE LET o == load_cell_occupied_capacity(index, source)
                 f == <<"load_cell_capacity", "load_cell_occupied_capacity">>
             IN  IF o.tag # "Ok"
                 THEN Outcome(Err(ErrorFrom(o.err)), f, {})
                 ELSE Outcome(minus(c.val, o.val), f, {})

extract_accumulated_rate_at_0(index, source) ==
    LET h == load_header_dao(index, source)
    IN  IF h.tag # "Ok"
        THEN Outcome(Err(ErrorFrom(h.err)), <<"load_header">>, {})
        ELSE LET u == u64_from(h.val, 0)
             IN  Outcome(u.ret, <<"load_header">>, u.reads)

extract_accumulated_rate(index, source) ==
    LET h == load_header_dao(index, source)
    IN  IF h.tag # "Ok"
        THEN Outcome(Err(ErrorFrom(h.err)), <<"load_header">>, {})
        ELSE LET u == u64_from(h.val, RateOffset)
             IN  Outcome(u.ret, <<"load_header">>, u.reads)

cell_data_has_8_zeroed_bytes_lenient(index, source) ==
    LET r == load_cell_data(index, source)
    IN  IF r.tag # "Ok"
        THEN Outcome(Bool(FALSE), <<"load_cell_data">>, {})
        ELSE LET u == u64_from(r.val, 0)
             IN  IF u.ret.tag = "Ok"
                 THEN Outcome(Bool(u.ret.val = Small(0)), <<"load_cell_data">>, u.reads)
                 ELSE Outcome(Bool(TRUE), <<"load_cell_data">>, u.reads)

\* The previous answer kept and handed out again, whatever the cell asked for.
cell_data_has_8_zeroed_bytes_cached(index, source) ==
    IF call.op = "cell_data_has_8_zeroed_bytes"
    THEN Outcome(ret, fetches, reads)
    ELSE LET r == load_cell_data(index, source)
         IN  IF r.tag # "Ok"
             THEN Outcome(Bool(FALSE), <<"load_cell_data">>, {})
             ELSE LET u == u64_from(r.val, 0)
                  IN  Outcome(Bool(u.ret.tag = "Ok" /\ u.ret.val = Small(0)),
                              <<"load_cell_data">>, u.reads)

cell_data_has_8_zeroed_bytes(index, source) ==
    LET r == load_cell_data(index, source)
    IN  IF r.tag # "Ok"
        THEN Outcome(Bool(FALSE), <<"load_cell_data">>, {})
        ELSE LET u == u64_from(r.val, 0)
             IN  IF u.ret.tag = "Ok"
                 THEN Outcome(Bool(u.ret.val = Small(0)), <<"load_cell_data">>, u.reads)
                 ELSE Outcome(Bool(FALSE), <<"load_cell_data">>, u.reads)

----------------------------------------------------------------------------
(* Host snapshots *)

HostErrors == {"IndexOutOfBound", "ItemMissing"}

Fill(n, b) == [i \in 1..n |-> b]
Ramp(n) == [i \in 1..n |-> i]
OneOff(n, p, v, bg) == [i \in 1..n |-> IF i = p THEN v ELSE bg]
Take(s, n) == SubSeq(s, 1, IF n < Len(s) THEN n ELSE Len(s))

\* token_amount 0x0102030405060708, receipt_amount 0x00AABBCCDDEEFF, count 7.
ExamplePayload ==
    <<8, 7, 6, 5, 4, 3, 2, 1, 255, 238, 221, 204, 187, 170, 0, 7>>

Payloads ==
    {ExamplePayload} \cup
    UNION {{Fill(n, 0), Fill(n, 255), Ramp(n)} \cup
           {OneOff(n, p, 1, 0) : p \in 1..n} \cup
           {OneOff(n, p, 0, 255) : p \in 1..n} : n \in 0..MaxLen}

DataResults == {Ok(d) : d \in Payloads} \cup {Err(e) : e \in HostErrors}

U64Max == [k \in 1..Limbs |-> LimbBase - 1]

CapValues ==
    {Small(0), Small(400), Small(1000), <<0, 1, 0, 0>>, <<0, 0, 0, 32768>>, U64Max}

CapResults == {Ok(c) : c \in CapValues} \cup {Err(e) : e \in HostErrors}

\* The DAO field with bytes [8,16) holding 123456789 (0x075BCD15).
RateBytes == <<21, 205, 91, 7, 0, 0, 0, 0>>
DaoAround(bg) == Fill(8, bg) \o RateBytes \o Fill(16, bg)

\* Lengths of dao_data.as_slice().  The header type of ckb fixes the field at
\* 32 bytes; utils.rs itself relies only on the bound check of u64_from, so the
\* host here may also hand out shorter fields.
DaoLens == {0, 8, 15, 16, 17, 32}

DaoBlocks ==
    {Take(d, n) : d \in {DaoAround(0), DaoAround(255), Fill(32, 0), Fill(32, 255),
                         Ramp(32), Fill(8, 0) \o Fill(8, 255) \o Fill(16, 0)},
                  n \in DaoLens}

DaoResults == {Ok(d) : d \in DaoBlocks} \cup {Err(e) : e \in HostErrors}

DefaultCell ==
    [data |-> Ok(ExamplePayload), capacity |-> Ok(Small(1000)),
     occupied |-> Ok(Small(400)), dao |-> Ok(DaoAround(0))]

AbsentCell ==
    [data |-> Err("IndexOutOfBound"), capacity |-> Err("IndexOutOfBound"),
     occupied |-> Err("IndexOutOfBound"), dao |-> Err("IndexOutOfBound")]

OtherCell ==
    [data |-> Ok(Fill(10, 0)), capacity |-> Ok(Small(400)),
     occupied |-> Ok(Small(1000)), dao |-> Ok(DaoAround(255))]

\* The cells the model varies: one field at a time around the default cell.
Cells ==
    {[DefaultCell EXCEPT !.data = d] : d \in DataResults} \cup
    {[DefaultCell EXCEPT !.capacity = c, !.occupied = o] :
        c \in CapResults, o \in CapResults} \cup
    {[DefaultCell EXCEPT !.dao = h] : h \in DaoResults}

K1 == <<0, "Input">>
K2 == <<1, "Output">>

Hosts ==
    {[k \in Keys |-> IF k = K1 THEN c ELSE o] :
        c \in Cells, o \in {AbsentCell, OtherCell}}

----------------------------------------------------------------------------
(* The state machine: the policy script calls the operations in any order *)

NoCall == [op |-> "none"]

Init ==
    /\ host \in Hosts
    /\ overflow_checks \in BOOLEAN
    /\ call = NoCall
    /\ ret = [tag |-> "None"]
    /\ fetches = <<>>
    /\ reads = {}
    /\ first = NoCall
    /\ later = FALSE

\* A call of `op` at (index, source) with outcome `out`.  A panic aborts the
\* script, so nothing is called after one.
Return(op, k, out) ==
    /\ ret.tag # "Panic"
    /\ call' = [op |-> op, index |-> k[1], source |-> k[2]]
    /\ ret' = out.ret
    /\ fetches' = out.fetches
    /\ reads' = out.reads
    /\ first' = IF first = NoCall
                THEN [op |-> op, index |-> k[1], source |-> k[2], ret |-> out.ret]
                ELSE first
    /\ later' = (first # NoCall)
    /\ UNCHANGED <<host, overflow_checks>>

ExtractIckbData ==
    \E k \in Keys : Return("extract_ickb_data", k, extract_ickb_data(k[1], k[2]))

ExtractUnusedCapacity ==
    \E k \in Keys :
        Return("extract_unused_capacity", k, extract_unused_capacity(k[1], k[2]))

ExtractAccumulatedRate ==
    \E k \in Keys :
        Return("extract_accumulated_rate", k, extract_accumulated_rate(k[1], k[2]))

CellDataHas8ZeroedBytes ==
    \E k \in Keys :
        Return("cell_data_has_8_zeroed_bytes", k,
               cell_data_has_8_zeroed_bytes(k[1], k[2]))

Next ==
    \/ ExtractIckbData
    \/ ExtractUnusedCapacity
    \/ ExtractAccumulatedRate
    \/ CellDataHas8ZeroedBytes

Spec == Init /\ [][Next]_vars

----------------------------------------------------------------------------
(* The byte-field reader on its own: a run applies u64_from once, to one of *)
(* the host's buffers at an offset up to MaxBegin, or to such a buffer after *)
(* a u64 was written into it.                                               *)

U64Samples == {Small(0), <<1800, 1286, 772, 258>>, <<0, 0, 0, 32768>>, U64Max}

Buffers == {"data", "dao"}

InitReader ==
    /\ Init
    /\ host[K2] = OtherCell
    /\ overflow_checks

Apply(c, out) ==
    /\ call = NoCall
    /\ call' = c
    /\ ret' = out.ret
    /\ fetches' = out.fetches
    /\ reads' = out.reads
    /\ UNCHANGED <<host, overflow_checks, first, later>>

U64From ==
    \E b \in Buffers, begin \in 0..MaxBegin :
        /\ host[K1][b].tag = "Ok"
        /\ LET data == host[K1][b].val
           IN  Apply([op |-> "u64_from", data |-> data, begin |-> begin],
                     u64_from(data, begin))

WriteThenRead ==
    \E b \in Buffers, begin \in 0..MaxBegin, v \in U64Samples :
        /\ host[K1][b].tag = "Ok"
        /\ begin + 8 <= Len(host[K1][b].val)
        /\ LET data == copy_from_slice(host[K1][b].val, begin, begin + 8,
                                       to_le_bytes(v))
           IN  Apply([op |-> "write_then_read", value |-> v, data |-> data,
                      begin |-> begin],
                     u64_from(data, begin))

NextReader ==
    \/ U64From
    \/ WriteThenRead
    \/ ExtractAccumulatedRate

SpecReader == InitReader /\ [][NextReader]_vars

----------------------------------------------------------------------------
(* Properties *)

\* The cell the last call addressed.
Cell == host[<<call.index, call.source>>]

\* C1: for a payload of at least 16 bytes extract_ickb_data returns
\* Ok((token_amount, receipt_amount, receipt_count)) where token_amount has the
\* little-endian bytes [0,8) of the payload, receipt_amount has the bytes [8,15)
\* as its low seven bytes and a zero high byte, and receipt_count is byte 15;
\* nothing past offset 15 and no leftover of the reused buffer enters the result.
C1_DecodesTheLayout ==
    (call.op = "extract_ickb_data" /\ Cell.data.tag = "Ok"
        /\ Len(Cell.data.val) >= 16) =>
      /\ ret.tag = "Ok"
      /\ LET d == Cell.data.val
             token_amount == ret.val[1]
             receipt_amount == ret.val[2]
             receipt_count == ret.val[3]
         IN  /\ IsU64(token_amount)
             /\ IsU64(receipt_amount)
             /\ \A i \in 0..7 : ByteOf(token_amount, i) = d[i + 1]
             /\ \A i \in 0..6 : ByteOf(receipt_amount, i) = d[i + 9]
             /\ ByteOf(receipt_amount, 7) = 0
             /\ receipt_count = d[16]

C1_Witness ==
    /\ call.op = "extract_ickb_data"
    /\ Cell.data = Ok(ExamplePayload)
    /\ ret = Ok(<<<<1800, 1286, 772, 258>>, <<61183, 52445, 43707, 0>>, 7>>)

\* C2: extract_unused_capacity returns total - occupied when total >= occupied,
\* and when occupied > total it ends in a fatal condition: it never returns a
\* wrapped or a saturated value.
C2_UnderflowIsFatal ==
    (call.op = "extract_unused_capacity" /\ Cell.capacity.tag = "Ok"
        /\ Cell.occupied.tag = "Ok") =>
      IF Less(Cell.capacity.val, Cell.occupied.val)
      THEN ret = Panic
      ELSE /\ ret.tag = "Ok"
           /\ IsU64(ret.val)
           /\ wrapping_add(ret.val, Cell.occupied.val) = Cell.capacity.val

\* C3: cell_data_has_8_zeroed_bytes always returns a boolean, and it returns
\* true exactly when the payload fetch succeeds, the payload has at least 8
\* bytes and its first 8 bytes are all zero.
C3_ZeroSentinelIsTotal ==
    call.op = "cell_data_has_8_zeroed_bytes" =>
      /\ ret.tag = "Bool"
      /\ ret.val \in BOOLEAN
      /\ ret.val <=> /\ Cell.data.tag = "Ok"
                     /\ Len(Cell.data.val) >= 8
                     /\ \A i \in 1..8 : Cell.data.val[i] = 0

C3_Witness ==
    /\ call.op = "cell_data_has_8_zeroed_bytes"
    /\ Cell.data = Ok(<<0, 0, 0, 0, 0, 0, 0, 0, 1, 0>>)
    /\ ret = Bool(TRUE)

\* C4: when the payload fetch succeeds and the payload has fewer than 16 bytes,
\* extract_ickb_data returns the Encoding error and no decoded triple.
C4_ShortPayloadIsEncoding ==
    (call.op = "extract_ickb_data" /\ Cell.data.tag = "Ok"
        /\ Len(Cell.data.val) < 16) =>
      ret = Err("Encoding")

C4_Witness ==
    /\ call.op = "extract_ickb_data"
    /\ Cell.data.tag = "Ok"
    /\ Len(Cell.data.val) = 15
    /\ ret = Err("Encoding")

\* C5: for a buffer shorter than offset + 8, u64_from returns the Encoding error
\* and reads no byte at an index past the buffer; so extract_accumulated_rate
\* returns Encoding when the DAO field it got has fewer than 16 bytes.
C5_ShortBufferIsEncoding ==
    /\ (call.op = "u64_from" /\ Len(call.data) < call.begin + 8) =>
         /\ ret = Err("Encoding")
         /\ \A i \in reads : i < Len(call.data)
    /\ (call.op = "extract_accumulated_rate" /\ Cell.dao.tag = "Ok"
           /\ Len(Cell.dao.val) < 16) =>
         /\ ret = Err("Encoding")
         /\ \A i \in reads : i < Len(Cell.dao.val)

C5_Witness ==
    /\ call.op = "u64_from"
    /\ call.begin = 8
    /\ Len(call.data) = 15
    /\ ret = Err("Encoding")

\* C6: when the header fetch succeeds and the DAO field has at least 16 bytes,
\* extract_accumulated_rate returns the u64 whose little-endian bytes are the
\* bytes [8,16) of the field, so two fields that agree there give one result.
C6_RateIsBytes8To16 ==
    /\ (call.op = "extract_accumulated_rate" /\ Cell.dao.tag = "Ok"
           /\ Len(Cell.dao.val) >= 16) =>
         /\ ret.tag = "Ok"
         /\ IsU64(ret.val)
         /\ \A i \in 0..7 : ByteOf(ret.val, i) = Cell.dao.val[i + 9]
    /\ \A k1 \in Keys, k2 \in Keys :
         (/\ host[k1].dao.tag = "Ok" /\ Len(host[k1].dao.val) >= 16
          /\ host[k2].dao.tag = "Ok" /\ Len(host[k2].dao.val) >= 16
          /\ \A i \in 9..16 : host[k1].dao.val[i] = host[k2].dao.val[i]) =>
           extract_accumulated_rate(k1[1], k1[2]).ret
             = extract_accumulated_rate(k2[1], k2[2]).ret

C6_Witness ==
    /\ call.op = "extract_accumulated_rate"
    /\ Cell.dao = Ok(DaoAround(255))
    /\ ret = Ok(<<52501, 1883, 0, 0>>)

\* C7: every receipt_amount extract_ickb_data returns is below 2^56.
C7_ReceiptFitsIn56Bits ==
    (call.op = "extract_ickb_data" /\ ret.tag = "Ok") =>
      /\ IsU64(ret.val[2])
      /\ ret.val[2][4] < ByteBase

C7_Witness ==
    /\ call.op = "extract_ickb_data"
    /\ Cell.data = Ok(Fill(16, 255))
    /\ ret = Ok(<<U64Max, <<65535, 65535, 65535, 255>>, 255>>)

\* C8: a u64 written as 8 little-endian bytes at an offset of a buffer is read
\* back by u64_from at that offset, whatever the rest of the buffer holds.
C8_ReaderRoundTrips ==
    call.op = "write_then_read" => ret = Ok(call.value)

C8_Witness ==
    /\ call.op = "write_then_read"
    /\ call.value = <<1800, 1286, 772, 258>>
    /\ call.begin = 3
    /\ \E i \in 1..Len(call.data) : i > 11 /\ call.data[i] = 255
    /\ ret = Ok(<<1800, 1286, 772, 258>>)

\* C9: a failed host fetch is returned as it is and nothing runs after it; in
\* extract_unused_capacity the total capacity is fetched first, and when that
\* fails the occupied capacity is never fetched.
C9_FetchFailurePropagates ==
    /\ (call.op = "extract_ickb_data" /\ Cell.data.tag = "Err") =>
         /\ ret = Err(Cell.data.err)
         /\ fetches = <<"load_cell_data">>
         /\ reads = {}
    /\ (call.op = "extract_accumulated_rate" /\ Cell.dao.tag = "Err") =>
         /\ ret = Err(Cell.dao.err)
         /\ fetches = <<"load_header">>
         /\ reads = {}
    /\ (call.op = "extract_unused_capacity" /\ Cell.capacity.tag = "Err") =>
         /\ ret = Err(Cell.capacity.err)
         /\ fetches = <<"load_cell_capacity">>
    /\ (call.op = "extract_unused_capacity" /\ Cell.capacity.tag = "Ok"
           /\ Cell.occupied.tag = "Err") =>
         /\ ret = Err(Cell.occupied.err)
         /\ fetches = <<"load_cell_capacity", "load_cell_occupied_capacity">>

C9_Witness ==
    /\ call.op = "extract_unused_capacity"
    /\ Cell.capacity = Err("ItemMissing")
    /\ Cell.occupied = Err("IndexOutOfBound")
    /\ ret = Err("ItemMissing")
    /\ fetches = <<"load_cell_capacity">>

====
